---------------------------- MODULE Spec2Model ----------------------------
(***************************************************************************)
(* FA1.2 fungible-token ledger (FA12.py): the storage of the assembled     *)
(* FA12 contract and its entry points transfer, approve, mint, burn,       *)
(* setAdministrator and setPause.                                          *)
(*                                                                         *)
(* Every entry point is an operator from (storage, sender, parameters) to  *)
(* a result [err, st]: err is "ok" or the failure the entry point raises,  *)
(* st the storage the entry point has built when it ends.  A failed        *)
(* operation is not applied by the chain: the action keeps the old         *)
(* storage and only records the failure in the receipt.                    *)
(***************************************************************************)
EXTENDS Integers, FiniteSets, Sequences, TLC

(* Addresses that call the contract or appear as parameters. *)
Addr == {"admin", "alice", "bob"}

(* The administrator the contract is originated with. *)
InitialAdmin == "admin"

(* The owners whose approvals are recorded, and the spenders they name. *)
Approvers == {"alice"}
Spenders == {"admin", "bob"}

(* Largest value parameter of a call, largest total supply minted. *)
MaxValue == 2
MaxSupply == 2

Values == 0..MaxValue

(* FA12_Error *)
NotAdmin == "FA1.2_NotAdmin"
InsufficientBalance == "FA1.2_InsufficientBalance"
UnsafeAllowanceChange == "FA1.2_UnsafeAllowanceChange"
Paused == "FA1.2_Paused"
NotAllowed == "FA1.2_NotAllowed"
(* m[k] on a map without key k fails, with none of the FA12_Error messages. *)
MissingItem == "MissingItemInMap"
Ok == "ok"

VARIABLES balances, totalSupply, administrator, paused, last

vars == <<balances, totalSupply, administrator, paused, last>>

(* self.data *)
data ==
  [balances |-> balances, totalSupply |-> totalSupply,
   administrator |-> administrator, paused |-> paused]

-----------------------------------------------------------------------------
(* Maps: a function whose domain is the set of keys present. *)
EmptyMap == [k \in {} |-> 0]

Put(m, k, v) == [x \in DOMAIN m \cup {k} |-> IF x = k THEN v ELSE m[x]]

Get(m, k, default) == IF k \in DOMAIN m THEN m[k] ELSE default

Fail(st, e) == [err |-> e, st |-> st]

Done(st) == [err |-> Ok, st |-> st]

-----------------------------------------------------------------------------
(* An administrator check that keeps the administrator of origination. *)
isOriginalAdministrator(st, sender) == sender = InitialAdmin

(* FA12_administrator.is_administrator *)
is_administrator(st, sender) == sender = st.administrator

(* The is_paused of FA12_core, which FA12_pause overrides. *)
neverPaused(st) == FALSE

(* FA12_pause.is_paused *)
is_paused(st) == st.paused

(* The entry of an address written anew whether or not it is there. *)
overwriteAddress(st, address) ==
  [st EXCEPT !.balances =
     Put(st.balances, address, [balance |-> 0, approvals |-> EmptyMap])]

(* FA12_core.addAddressIfNecessary *)
addAddressIfNecessary(st, address) ==
  IF address \notin DOMAIN st.balances
  THEN [st EXCEPT !.balances =
          Put(st.balances, address, [balance |-> 0, approvals |-> EmptyMap])]
  ELSE st

(* The authorization of transfer that accepts any recorded approval. *)
transferAllowedByAnyApproval(st, sender, params) ==
  IF is_administrator(st, sender) THEN Ok
  ELSE IF is_paused(st) THEN NotAllowed
  ELSE IF params.from_ = sender THEN Ok
  ELSE IF params.from_ \notin DOMAIN st.balances THEN MissingItem
  ELSE IF sender \notin DOMAIN st.balances[params.from_].approvals THEN MissingItem
  ELSE Ok

(* The authorization of transfer without the pause flag. *)
transferAllowedWhilePaused(st, sender, params) ==
  IF is_administrator(st, sender) THEN Ok
  ELSE IF params.from_ = sender THEN Ok
  ELSE IF params.from_ \notin DOMAIN st.balances THEN MissingItem
  ELSE IF sender \notin DOMAIN st.balances[params.from_].approvals THEN MissingItem
  ELSE IF st.balances[params.from_].approvals[sender] >= params.value THEN Ok
  ELSE NotAllowed

(* The condition of transfer's first sp.verify; | and & evaluate their     *)
(* right operand only when the left one does not decide, so the lookup     *)
(* balances[from_].approvals[sender] happens only for an unpaused call of  *)
(* a sender that is neither the administrator nor from_.                   *)
transferAllowed(st, sender, params) ==
  IF is_administrator(st, sender) THEN Ok
  ELSE IF is_paused(st) THEN NotAllowed
  ELSE IF params.from_ = sender THEN Ok
  ELSE IF params.from_ \notin DOMAIN st.balances THEN MissingItem
  ELSE IF sender \notin DOMAIN st.balances[params.from_].approvals THEN MissingItem
  ELSE IF st.balances[params.from_].approvals[sender] >= params.value THEN Ok
  ELSE NotAllowed

(* A debit that takes one token whatever the value. *)
debitOne(st, params) ==
  [st EXCEPT !.balances[params.from_].balance = IF params.value = 0 THEN @ ELSE @ - 1]

(* Line 82: the debit of from_. *)
debit(st, params) ==
  [st EXCEPT !.balances[params.from_].balance = @ - params.value]

(* A credit that is lost. *)
creditNothing(st, params) == st

(* Line 83: the credit of to_. *)
credit(st, params) ==
  [st EXCEPT !.balances[params.to_].balance = @ + params.value]

(* An allowance that is used up by its first transfer. *)
spendWholeAllowance(st, sender, params) ==
  IF params.from_ # sender /\ ~is_administrator(st, sender)
  THEN [st EXCEPT !.balances[params.from_].approvals[sender] = 0]
  ELSE st

(* Lines 84-85: the allowance of a sender that is neither from_ nor the    *)
(* administrator.                                                          *)
spendAllowance(st, sender, params) ==
  IF params.from_ # sender /\ ~is_administrator(st, sender)
  THEN [st EXCEPT !.balances[params.from_].approvals[sender] = @ - params.value]
  ELSE st

(* FA12_core.transfer *)
transfer(st, sender, params) ==
  LET allowed == transferAllowed(st, sender, params) IN
  IF allowed # Ok THEN Fail(st, allowed)
  ELSE
    LET s1 == addAddressIfNecessary(st, params.from_)
        s2 == addAddressIfNecessary(s1, params.to_)
    IN IF ~(s2.balances[params.from_].balance >= params.value)
       THEN Fail(s2, InsufficientBalance)
       ELSE Done(spendAllowance(credit(debit(s2, params), params), sender, params))

(* approve without the race guard. *)
anyAllowanceChange(alreadyApproved, value) == TRUE

(* Line 93: the condition of approve's second sp.verify. *)
safeAllowanceChange(alreadyApproved, value) == alreadyApproved = 0 \/ value = 0

(* FA12_core.approve *)
approve(st, sender, params) ==
  LET s1 == addAddressIfNecessary(st, sender) IN
  IF is_paused(s1) THEN Fail(s1, Paused)
  ELSE
    LET alreadyApproved == Get(s1.balances[sender].approvals, params.spender, 0) IN
    IF ~safeAllowanceChange(alreadyApproved, params.value)
    THEN Fail(s1, UnsafeAllowanceChange)
    ELSE Done([s1 EXCEPT !.balances[sender].approvals =
                 Put(@, params.spender, params.value)])

(* mint that forgets the supply counter. *)
mintWithoutSupply(st, sender, params) ==
  LET s1 == addAddressIfNecessary(st, params.address)
  IN Done([s1 EXCEPT !.balances[params.address].balance = @ + params.value])

(* FA12_mint_burn.mint *)
mint(st, sender, params) ==
  LET s1 == addAddressIfNecessary(st, params.address)
      s2 == [s1 EXCEPT !.balances[params.address].balance = @ + params.value]
  IN Done([s2 EXCEPT !.totalSupply = @ + params.value])

(* burn without the balance check. *)
burnUnchecked(st, sender, params) ==
  IF ~is_administrator(st, sender) THEN Fail(st, NotAdmin)
  ELSE IF params.address \notin DOMAIN st.balances THEN Fail(st, MissingItem)
  ELSE
    LET s1 == [st EXCEPT !.balances[params.address].balance = @ - params.value]
    IN Done([s1 EXCEPT !.totalSupply = @ - params.value])

(* burn that forgets the supply counter. *)
burnWithoutSupply(st, sender, params) ==
  IF ~is_administrator(st, sender) THEN Fail(st, NotAdmin)
  ELSE IF params.address \notin DOMAIN st.balances THEN Fail(st, MissingItem)
  ELSE IF ~(st.balances[params.address].balance >= params.value)
  THEN Fail(st, InsufficientBalance)
  ELSE Done([st EXCEPT !.balances[params.address].balance = @ - params.value])

(* FA12_mint_burn.burn *)
burn(st, sender, params) ==
  IF ~is_administrator(st, sender) THEN Fail(st, NotAdmin)
  ELSE IF params.address \notin DOMAIN st.balances THEN Fail(st, MissingItem)
  ELSE IF ~(st.balances[params.address].balance >= params.value)
  THEN Fail(st, InsufficientBalance)
  ELSE
    LET s1 == [st EXCEPT !.balances[params.address].balance = @ - params.value]
    IN Done([s1 EXCEPT !.totalSupply = @ - params.value])

(* FA12_administrator.setAdministrator *)
setAdministrator(st, sender, params) ==
  IF ~is_administrator(st, sender) THEN Fail(st, NotAdmin)
  ELSE Done([st EXCEPT !.administrator = params])

(* setPause that can only pause. *)
setPauseOnlyPauses(st, sender, params) ==
  IF ~is_administrator(st, sender) THEN Fail(st, NotAdmin)
  ELSE Done([st EXCEPT !.paused = TRUE])

(* setPause without the administrator check. *)
setPauseByAnyone(st, sender, params) == Done([st EXCEPT !.paused = params])

(* FA12_pause.setPause *)
setPause(st, sender, params) ==
  IF ~is_administrator(st, sender) THEN Fail(st, NotAdmin)
  ELSE Done([st EXCEPT !.paused = params])

(* FA12_core.getBalance *)
getBalance(st, params) ==
  IF params \in DOMAIN st.balances THEN st.balances[params].balance ELSE 0

(* getAllowance that looks the owner up among the approvals of the spender. *)
getAllowanceSwapped(st, params) ==
  IF params.spender \in DOMAIN st.balances
  THEN Get(st.balances[params.spender].approvals, params.owner, 0)
  ELSE 0

(* FA12_core.getAllowance *)
getAllowance(st, params) ==
  IF params.owner \in DOMAIN st.balances
  THEN Get(st.balances[params.owner].approvals, params.spender, 0)
  ELSE 0

(* FA12_core.getTotalSupply *)
getTotalSupply(st) == st.totalSupply

(* FA12_administrator.getAdministrator *)
getAdministrator(st) == st.administrator

(* sp.utils.view: a view computes its result from the storage and hands it *)
(* to the callback; it has no failing statement and writes nothing.        *)
view(st, result) == [err |-> Ok, st |-> st, result |-> result]

(* The views of the assembled FA12 contract, by name. *)
RunView(st, ep, params) ==
  CASE ep = "getBalance" -> view(st, getBalance(st, params))
    [] ep = "getAllowance" -> view(st, getAllowance(st, params))
    [] ep = "getTotalSupply" -> view(st, getTotalSupply(st))
    [] ep = "getAdministrator" -> view(st, getAdministrator(st))

-----------------------------------------------------------------------------
(* The receipt of the operation applied last: entry point, sender,         *)
(* parameters, outcome and the storage it ran on.  An operation is applied *)
(* once the receipt of the one before it has been delivered.               *)
NoCall == [ep |-> "none"]

Idle == last.ep = "none"

(* A failed operation whose writes stay. *)
ApplyWithoutRollback(ep, sender, params, r) ==
  /\ balances' = r.st.balances
  /\ totalSupply' = r.st.totalSupply
  /\ administrator' = r.st.administrator
  /\ paused' = r.st.paused
  /\ last' = [ep |-> ep, sender |-> sender, params |-> params,
              err |-> r.err, pre |-> data]

(* An operation that fails is backtracked: the storage stays as it was. *)
Apply(ep, sender, params, r) ==
  LET post == IF r.err = Ok THEN r.st ELSE data IN
  /\ balances' = post.balances
  /\ totalSupply' = post.totalSupply
  /\ administrator' = post.administrator
  /\ paused' = post.paused
  /\ last' = [ep |-> ep, sender |-> sender, params |-> params,
              err |-> r.err, pre |-> data]

Init ==
  /\ balances = EmptyMap
  /\ totalSupply = 0
  /\ administrator = InitialAdmin
  /\ paused = FALSE
  /\ last = NoCall

Transfer ==
  /\ Idle
  /\ \E sender \in Addr, from_ \in Addr, to_ \in Addr, value \in Values :
       LET params == [from_ |-> from_, to_ |-> to_, value |-> value]
       IN Apply("transfer", sender, params, transfer(data, sender, params))

(* Every sender calls approve with every spender; the approvals that are   *)
(* recorded are those of Approvers for Spenders.                           *)
Approve ==
  /\ Idle
  /\ \E sender \in Addr, spender \in Addr, value \in Values :
       LET params == [spender |-> spender, value |-> value]
           r == approve(data, sender, params)
       IN /\ r.err = Ok => sender \in Approvers /\ spender \in Spenders
          /\ Apply("approve", sender, params, r)

Mint ==
  /\ Idle
  /\ \E sender \in Addr, address \in Addr, value \in Values :
       /\ totalSupply + value <= MaxSupply
       /\ LET params == [address |-> address, value |-> value]
          IN Apply("mint", sender, params, mint(data, sender, params))

Burn ==
  /\ Idle
  /\ \E sender \in Addr, address \in Addr, value \in Values :
       LET params == [address |-> address, value |-> value]
       IN Apply("burn", sender, params, burn(data, sender, params))

SetAdministrator ==
  /\ Idle
  /\ \E sender \in Addr, params \in Addr :
       Apply("setAdministrator", sender, params,
             setAdministrator(data, sender, params))

SetPause ==
  /\ Idle
  /\ \E sender \in Addr, params \in BOOLEAN :
       Apply("setPause", sender, params, setPause(data, sender, params))

(* A view called by any sender; its receipt also holds the result. *)
ApplyView(ep, sender, params) ==
  LET r == RunView(data, ep, params) IN
  /\ balances' = r.st.balances
  /\ totalSupply' = r.st.totalSupply
  /\ administrator' = r.st.administrator
  /\ paused' = r.st.paused
  /\ last' = [ep |-> ep, sender |-> sender, params |-> params,
              err |-> r.err, pre |-> data, result |-> r.result]

Query ==
  /\ Idle
  /\ \E sender \in Addr :
       \/ \E address \in Addr : ApplyView("getBalance", sender, address)
       \/ \E owner \in Addr, spender \in Addr :
            ApplyView("getAllowance", sender, [owner |-> owner, spender |-> spender])
       \/ ApplyView("getTotalSupply", sender, <<>>)
       \/ ApplyView("getAdministrator", sender, <<>>)

(* The receipt is delivered; the next operation can be applied. *)
Deliver ==
  /\ ~Idle
  /\ last' = NoCall
  /\ UNCHANGED <<balances, totalSupply, administrator, paused>>

Next ==
  \/ Transfer
  \/ Approve
  \/ Mint
  \/ Burn
  \/ SetAdministrator
  \/ SetPause
  \/ Query
  \/ Deliver

Spec == Init /\ [][Next]_vars

-----------------------------------------------------------------------------
(* The entry points of the assembled FA12 contract, by name. *)
Run(st, ep, sender, params) ==
  CASE ep = "transfer" -> transfer(st, sender, params)
    [] ep = "approve" -> approve(st, sender, params)
    [] ep = "mint" -> mint(st, sender, params)
    [] ep = "burn" -> burn(st, sender, params)
    [] ep = "setAdministrator" -> setAdministrator(st, sender, params)
    [] ep = "setPause" -> setPause(st, sender, params)

(* The test scenario "Entry points": the administrator mints 12 + 3 + 3 to *)
(* Alice, then the calls of ScenarioCalls run in order.  The receipt also  *)
(* counts the calls of ScenarioCalls that have run.                        *)
ScenarioSupply == 12 + 3 + 3

ScenarioTransfer(sender, value) ==
  [ep |-> "transfer", sender |-> sender,
   params |-> [from_ |-> "alice", to_ |-> "bob", value |-> value]]

ScenarioCalls ==
  << ScenarioTransfer("alice", 4),
     ScenarioTransfer("bob", 4),
     [ep |-> "approve", sender |-> "alice",
      params |-> [spender |-> "bob", value |-> 5]],
     ScenarioTransfer("bob", 4),
     ScenarioTransfer("bob", 4),
     [ep |-> "burn", sender |-> "admin", params |-> [address |-> "bob", value |-> 1]],
     [ep |-> "burn", sender |-> "alice", params |-> [address |-> "bob", value |-> 1]],
     [ep |-> "setPause", sender |-> "admin", params |-> TRUE],
     ScenarioTransfer("alice", 4),
     ScenarioTransfer("admin", 1),
     [ep |-> "setPause", sender |-> "admin", params |-> FALSE],
     ScenarioTransfer("alice", 1) >>

ScenarioApply(call, step) ==
  LET r == Run(data, call.ep, call.sender, call.params)
      post == IF r.err = Ok THEN r.st ELSE data
  IN /\ balances' = post.balances
     /\ totalSupply' = post.totalSupply
     /\ administrator' = post.administrator
     /\ paused' = post.paused
     /\ last' = [ep |-> call.ep, sender |-> call.sender, params |-> call.params,
                 err |-> r.err, pre |-> data, step |-> step]

ScenarioInit ==
  /\ balances = EmptyMap
  /\ totalSupply = 0
  /\ administrator = InitialAdmin
  /\ paused = FALSE
  /\ last = [ep |-> "none", step |-> 0]

(* The mints: any split of the 18 tokens into mint calls. *)
ScenarioMint ==
  /\ last.step = 0
  /\ totalSupply < ScenarioSupply
  /\ \E value \in 1..(ScenarioSupply - totalSupply) :
       ScenarioApply([ep |-> "mint", sender |-> "admin",
                      params |-> [address |-> "alice", value |-> value]], 0)

ScenarioCall ==
  /\ totalSupply > 0
  /\ last.step > 0 \/ totalSupply = ScenarioSupply
  /\ last.step < Len(ScenarioCalls)
  /\ ScenarioApply(ScenarioCalls[last.step + 1], last.step + 1)

ScenarioNext ==
  \/ ScenarioMint
  \/ ScenarioCall

SpecScenario == ScenarioInit /\ [][ScenarioNext]_vars

-----------------------------------------------------------------------------
(* The ledger with an audit of the allowances: for every owner and every   *)
(* spender that has never been the administrator, the sum of the values of *)
(* the owner's successful approve calls, the sum moved by the spender's    *)
(* successful transfers out of the owner's balance, and the sum of the     *)
(* allowances the owner took back with approve(spender, 0).  The audit of  *)
(* a spender ends when it becomes the administrator.                       *)
MaxApproved == 3

AuditPairs == {p \in Addr \X Addr : p[1] # p[2]}

(* A count of the audit after a successful call: hit says that the call   *)
(* adds value to the count of the pair p.                                  *)
AuditCount(count, wasAdmin, p, hit, value) ==
  IF p[2] \in wasAdmin THEN 0
  ELSE IF hit THEN count[p] + value
  ELSE count[p]

(* A call that fails leaves the storage and the audit as they are: only    *)
(* the calls that succeed are steps.                                       *)
AuditApply(ep, sender, params) ==
  \E r \in {Run(data, ep, sender, params)} :
    /\ r.err = Ok
    /\ r.st.totalSupply <= MaxSupply
    /\ \E wasAdmin \in {last.wasAdmin \cup {r.st.administrator}} :
         LET approved == [p \in AuditPairs |->
               AuditCount(last.approved, wasAdmin, p,
                          ep = "approve" /\ p = <<sender, params.spender>>,
                          params.value)]
             spent == [p \in AuditPairs |->
               AuditCount(last.spent, wasAdmin, p,
                          ep = "transfer" /\ p = <<params.from_, sender>>,
                          params.value)]
             revoked == [p \in AuditPairs |->
               AuditCount(last.revoked, wasAdmin, p,
                          ep = "approve" /\ p = <<sender, params.spender>>
                            /\ params.value = 0,
                          getAllowance(data, [owner |-> p[1], spender |-> p[2]]))]
         IN /\ ep = "approve"
               => /\ sender \in Approvers /\ params.spender \in Spenders
                  /\ sender # params.spender /\ params.spender \notin wasAdmin
                     => last.approved[<<sender, params.spender>>] + params.value
                          <= MaxApproved
            /\ balances' = r.st.balances
            /\ totalSupply' = r.st.totalSupply
            /\ administrator' = r.st.administrator
            /\ paused' = r.st.paused
            /\ last' = [ep |-> "audit", wasAdmin |-> wasAdmin,
                        approved |-> approved, spent |-> spent,
                        revoked |-> revoked]

AuditInit ==
  /\ balances = EmptyMap
  /\ totalSupply = 0
  /\ administrator = InitialAdmin
  /\ paused = FALSE
  /\ last = [ep |-> "audit", wasAdmin |-> {InitialAdmin},
             approved |-> [p \in AuditPairs |-> 0],
             spent |-> [p \in AuditPairs |-> 0],
             revoked |-> [p \in AuditPairs |-> 0]]

(* The receipt holds the audit. *)
Auditing == last.ep = "audit"

AuditTransfer ==
  /\ Auditing
  /\ \E sender \in Addr, from_ \in Addr, to_ \in Addr, value \in Values :
       AuditApply("transfer", sender,
                  [from_ |-> from_, to_ |-> to_, value |-> value])

AuditApprove ==
  /\ Auditing
  /\ \E sender \in Addr, spender \in Addr, value \in Values :
       AuditApply("approve", sender, [spender |-> spender, value |-> value])

AuditMint ==
  /\ Auditing
  /\ \E sender \in Addr, address \in Addr, value \in Values :
       AuditApply("mint", sender, [address |-> address, value |-> value])

AuditBurn ==
  /\ Auditing
  /\ \E sender \in Addr, address \in Addr, value \in Values :
       AuditApply("burn", sender, [address |-> address, value |-> value])

AuditSetAdministrator ==
  /\ Auditing
  /\ \E sender \in Addr, params \in Addr :
       AuditApply("setAdministrator", sender, params)

AuditSetPause ==
  /\ Auditing
  /\ \E sender \in Addr, params \in BOOLEAN :
       AuditApply("setPause", sender, params)

AuditNext ==
  \/ AuditTransfer
  \/ AuditApprove
  \/ AuditMint
  \/ AuditBurn
  \/ AuditSetAdministrator
  \/ AuditSetPause

SpecAudit == AuditInit /\ [][AuditNext]_vars

-----------------------------------------------------------------------------
(* What a receipt says: the call applied last and the storage before it. *)
Called(ep) == last.ep = ep

Succeeded == last.err = Ok

pre == last.pre

Allowance(st, owner, spender) ==
  getAllowance(st, [owner |-> owner, spender |-> spender])

AllowancesUnchangedExcept(pairs) ==
  \A o \in Addr, s \in Addr :
    <<o, s>> \notin pairs => Allowance(data, o, s) = Allowance(pre, o, s)

RECURSIVE SumBalances(_, _)
SumBalances(m, S) ==
  IF S = {} THEN 0
  ELSE LET a == CHOOSE x \in S : TRUE
       IN m[a].balance + SumBalances(m, S \ {a})

(* C1: in every reachable state totalSupply equals the sum of the balances *)
(* of all accounts.                                                        *)
C1_SupplyIsSumOfBalances ==
  totalSupply = SumBalances(balances, DOMAIN balances)

C1_Witness ==
  /\ Called("transfer") /\ Succeeded
  /\ last.params.from_ # last.params.to_
  /\ last.params.value = 1
  /\ totalSupply = 2
  /\ getBalance(data, last.params.from_) = 1
  /\ getBalance(data, last.params.to_) = 1

(* C2: a mint call whose caller is not the current administrator never     *)
(* succeeds.                                                               *)
C2_OnlyAdministratorMints ==
  Called("mint") /\ last.sender # pre.administrator => ~Succeeded

(* The authorization condition of transfer as the specification states it, *)
(* an absent account or approval counting as an allowance of 0.            *)
StatedAuthorization ==
  \/ last.sender = pre.administrator
  \/ /\ ~pre.paused
     /\ \/ last.sender = last.params.from_
        \/ Allowance(pre, last.params.from_, last.sender) >= last.params.value

(* C3: a transfer whose stated authorization condition holds and whose     *)
(* from_ balance (0 if absent) covers the value succeeds.                  *)
C3_AuthorizedTransferSucceeds ==
  /\ Called("transfer")
  /\ StatedAuthorization
  /\ getBalance(pre, last.params.from_) >= last.params.value
  => Succeeded

(* C4: a transfer whose stated authorization condition does not hold fails *)
(* with NotAllowed and with no other error.                                *)
C4_UnauthorizedTransferIsNotAllowed ==
  Called("transfer") /\ ~StatedAuthorization => last.err = NotAllowed

C6_TransferSpendsAllowance ==
  Called("transfer") /\ Succeeded
  => LET from_ == last.params.from_
         sender == last.sender
     IN IF sender # from_ /\ sender # pre.administrator
        THEN /\ Allowance(data, from_, sender) =
                  Allowance(pre, from_, sender) - last.params.value
             /\ AllowancesUnchangedExcept({<<from_, sender>>})
        ELSE AllowancesUnchangedExcept({})

C6_Witness ==
  /\ Called("transfer") /\ Succeeded
  /\ last.sender # last.params.from_
  /\ last.sender # pre.administrator
  /\ last.params.value = 1
  /\ Allowance(pre, last.params.from_, last.sender) = 2
  /\ \E s \in Addr \ {last.sender} : Allowance(pre, last.params.from_, s) > 0

(* C7: while unpaused, approve of a value M > 0 over a current allowance   *)
(* N > 0 fails with UnsafeAllowanceChange and the allowance stays N;       *)
(* approve of 0 succeeds; approve of 0 followed by approve of M succeeds   *)
(* and leaves the allowance M; no successful approve turns a non-zero      *)
(* allowance into another non-zero allowance.                              *)
C7_AllowanceRaceGuard ==
  /\ Called("approve") /\ ~pre.paused
     => LET N == Allowance(pre, last.sender, last.params.spender)
            M == last.params.value
            after == Allowance(data, last.sender, last.params.spender)
        IN /\ N > 0 /\ M > 0 => last.err = UnsafeAllowanceChange /\ after = N
           /\ M = 0 => Succeeded /\ after = 0
           /\ N = 0 => Succeeded /\ after = M
           /\ Succeeded /\ N > 0 /\ after > 0 => after = N
  /\ Idle /\ ~paused
     => \A owner \in Addr, spender \in Addr, M \in Values :
          LET zeroed == approve(data, owner, [spender |-> spender, value |-> 0])
              set == approve(zeroed.st, owner, [spender |-> spender, value |-> M])
          IN /\ zeroed.err = Ok
             /\ set.err = Ok
             /\ Allowance(set.st, owner, spender) = M

C7_Witness ==
  /\ Called("approve")
  /\ ~pre.paused
  /\ Allowance(pre, last.sender, last.params.spender) = 2
  /\ last.params.value = 1
  /\ last.err = UnsafeAllowanceChange

(* C8: while paused no transfer by a sender other than the administrator   *)
(* succeeds; a transfer by the administrator whose from_ balance covers    *)
(* the value succeeds whatever the pause flag and the allowances.          *)
C8_PauseBlocksAllButAdministrator ==
  Called("transfer")
  => /\ pre.paused /\ last.sender # pre.administrator => ~Succeeded
     /\ /\ last.sender = pre.administrator
        /\ getBalance(pre, last.params.from_) >= last.params.value
        => Succeeded

C8_Witness ==
  /\ Called("transfer")
  /\ pre.paused
  /\ last.sender # pre.administrator
  /\ last.sender # last.params.from_
  /\ last.params.value = 1
  /\ Allowance(pre, last.params.from_, last.sender) >= 1
  /\ getBalance(pre, last.params.from_) >= 1
  /\ last.err = NotAllowed

(* C9: while paused every approve fails with Paused, whoever calls it,     *)
(* and leaves the storage as it was: no allowance is set and the sender's  *)
(* account is not materialized.                                            *)
C9_ApproveFailsWhilePaused ==
  Called("approve") /\ pre.paused => last.err = Paused /\ data = pre

C9_Witness ==
  /\ Called("approve")
  /\ pre.paused
  /\ last.sender = pre.administrator
  /\ last.sender \notin DOMAIN pre.balances
  /\ last.sender \notin DOMAIN balances
  /\ last.err = Paused

(* C10: burn, setAdministrator and setPause called by a sender that is not *)
(* the administrator fail with NotAdmin, whatever the parameters, and      *)
(* change nothing.                                                         *)
C10_AdministratorOnly ==
  /\ last.ep \in {"burn", "setAdministrator", "setPause"}
  /\ last.sender # pre.administrator
  => last.err = NotAdmin /\ data = pre

C10_Witness ==
  /\ Called("burn")
  /\ last.sender # pre.administrator
  /\ last.params.value = 1
  /\ getBalance(pre, last.params.address) >= 1
  /\ last.err = NotAdmin
  /\ getBalance(data, last.params.address) = getBalance(pre, last.params.address)

(* C11: burn called by the administrator succeeds exactly when the balance *)
(* of the address (0 if it has no account) covers the value, and then      *)
(* lowers that balance and totalSupply by exactly the value; otherwise it  *)
(* fails with InsufficientBalance and changes neither totalSupply nor any  *)
(* balance.                                                                *)
C11_BurnByAdministrator ==
  Called("burn") /\ last.sender = pre.administrator
  => LET address == last.params.address
         value == last.params.value
     IN IF getBalance(pre, address) >= value
        THEN /\ Succeeded
             /\ getBalance(data, address) = getBalance(pre, address) - value
             /\ totalSupply = pre.totalSupply - value
        ELSE /\ last.err = InsufficientBalance
             /\ totalSupply = pre.totalSupply
             /\ \A a \in Addr : getBalance(data, a) = getBalance(pre, a)

(* C12: after a successful setAdministrator(newAdmin) the new              *)
(* administrator passes the administrator check of burn, setPause,         *)
(* setAdministrator and of a paused transfer on the next call, and the     *)
(* previous one, if different, fails them; the administrator changes only  *)
(* by a successful setAdministrator of the administrator in place.         *)
C12_AdministratorIsReadOnEveryCall ==
  /\ Called("setAdministrator") /\ Succeeded
     => /\ administrator = last.params
        /\ \A sender \in Addr, a \in Addr, f \in BOOLEAN :
             LET isNew == sender = last.params
                 t == [from_ |-> a, to_ |-> a, value |-> 0]
             IN /\ burn(data, sender, [address |-> a, value |-> 0]).err = NotAdmin
                   <=> ~isNew
                /\ setPause(data, sender, f).err = (IF isNew THEN Ok ELSE NotAdmin)
                /\ setAdministrator(data, sender, a).err =
                     (IF isNew THEN Ok ELSE NotAdmin)
                /\ paused => transfer(data, sender, t).err =
                               (IF isNew THEN Ok ELSE NotAllowed)
  /\ ~Idle /\ administrator # pre.administrator
     => /\ Called("setAdministrator") /\ Succeeded
        /\ last.sender = pre.administrator
        /\ administrator = last.params
  /\ last.ep \in {"burn", "setPause", "setAdministrator"}
     => (last.err = NotAdmin <=> last.sender # pre.administrator)
  /\ Called("transfer") /\ pre.paused
     => (last.err = NotAllowed <=> last.sender # pre.administrator)

C12_Witness ==
  /\ Called("setAdministrator") /\ Succeeded
  /\ last.params # last.sender
  /\ last.sender # InitialAdmin
  /\ administrator = last.params
  /\ paused

C14_NothingNegative ==
  /\ totalSupply >= 0
  /\ \A a \in DOMAIN balances :
       /\ balances[a].balance >= 0
       /\ \A s \in DOMAIN balances[a].approvals : balances[a].approvals[s] >= 0
  /\ Called("burn") /\ last.params.value > getBalance(pre, last.params.address)
     => ~Succeeded
  /\ Called("transfer") /\ last.params.value > getBalance(pre, last.params.from_)
     => ~Succeeded
  /\ /\ Called("transfer")
     /\ last.sender # last.params.from_
     /\ last.sender # pre.administrator
     /\ last.params.value > Allowance(pre, last.params.from_, last.sender)
     => ~Succeeded

C14_Witness ==
  /\ Called("burn")
  /\ last.sender = pre.administrator
  /\ last.params.value = 2
  /\ getBalance(pre, last.params.address) = 1
  /\ pre.totalSupply = 1
  /\ last.err = InsufficientBalance

ScenarioState(a, b, supply) ==
  /\ getBalance(data, "alice") = a
  /\ getBalance(data, "bob") = b
  /\ totalSupply = supply

(* C15: the reference scenario is a run of the ledger: after the mints     *)
(* Alice holds 18 of a supply of 18; each call of the scenario succeeds or *)
(* fails as stated and leaves the stated balances; the final state is      *)
(* totalSupply = 17, balance[alice] = 8, balance[bob] = 9,                 *)
(* allowance(alice, bob) = 1.                                              *)
C15_ReferenceScenario ==
  /\ last.step = 0 /\ totalSupply = ScenarioSupply => ScenarioState(18, 0, 18)
  /\ last.step = 1 => Succeeded /\ ScenarioState(14, 4, 18)
  /\ last.step = 2 => ~Succeeded /\ ScenarioState(14, 4, 18)
  /\ last.step = 3 => Succeeded /\ Allowance(data, "alice", "bob") = 5
  /\ last.step = 4 => /\ Succeeded
                      /\ ScenarioState(10, 8, 18)
                      /\ Allowance(data, "alice", "bob") = 1
  /\ last.step = 5 => ~Succeeded /\ ScenarioState(10, 8, 18)
  /\ last.step = 6 => Succeeded /\ ScenarioState(10, 7, 17)
  /\ last.step = 7 => ~Succeeded /\ ScenarioState(10, 7, 17)
  /\ last.step = 8 => Succeeded /\ paused
  /\ last.step = 9 => ~Succeeded /\ ScenarioState(10, 7, 17)
  /\ last.step = 10 => Succeeded /\ ScenarioState(9, 8, 17)
  /\ last.step = 11 => Succeeded /\ ~paused
  /\ last.step = 12 => /\ Succeeded
                       /\ ScenarioState(8, 9, 17)
                       /\ Allowance(data, "alice", "bob") = 1

C15_Witness ==
  /\ last.step = Len(ScenarioCalls)
  /\ Called("transfer") /\ Succeeded
  /\ totalSupply = 17

Views == {"getBalance", "getAllowance", "getTotalSupply", "getAdministrator"}

(* C16: the views never fail and leave the storage as it was (no account   *)
(* is materialized); getBalance gives 0 for an absent account and the      *)
(* stored balance otherwise, getAllowance 0 for an absent owner or a       *)
(* spender without approval and the stored value otherwise,                *)
(* getTotalSupply and getAdministrator the stored fields.                  *)
C16_ViewsReadTheStorage ==
  last.ep \in Views
  => /\ Succeeded
     /\ data = pre
     /\ Called("getBalance")
        => last.result = (IF last.params \in DOMAIN pre.balances
                          THEN pre.balances[last.params].balance ELSE 0)
     /\ Called("getAllowance")
        => LET owner == last.params.owner
               spender == last.params.spender
           IN last.result =
                (IF owner \notin DOMAIN pre.balances THEN 0
                 ELSE IF spender \notin DOMAIN pre.balances[owner].approvals THEN 0
                 ELSE pre.balances[owner].approvals[spender])
     /\ Called("getTotalSupply") => last.result = pre.totalSupply
     /\ Called("getAdministrator") => last.result = pre.administrator

C16_Witness ==
  /\ Called("getAllowance")
  /\ last.params.owner \in DOMAIN balances
  /\ last.params.spender \notin DOMAIN balances
  /\ last.params.spender \notin DOMAIN balances[last.params.owner].approvals
  /\ \E s \in Addr : Allowance(data, last.params.owner, s) = 2
  /\ last.result = 0

(* C17: from a reachable unpaused state, setPause(true) then               *)
(* setPause(false), both by the administrator, give back the state they    *)
(* started from, so that every call has the outcome it had before the      *)
(* pause; setPause(flag) twice is setPause(flag) once.                     *)
C17_PauseRoundTrip ==
  /\ Idle /\ ~paused
     => LET on == setPause(data, administrator, TRUE)
            off == setPause(on.st, administrator, FALSE)
        IN /\ on.err = Ok /\ on.st.paused
           /\ off.err = Ok
           /\ off.st = data
  /\ Idle
     => \A flag \in BOOLEAN :
          LET once == setPause(data, administrator, flag)
              twice == setPause(once.st, administrator, flag)
          IN once.err = Ok /\ twice.err = Ok /\ twice.st = once.st
  /\ Called("setPause") /\ Succeeded
     => data = [pre EXCEPT !.paused = last.params]

C17_Witness ==
  /\ Called("setPause") /\ Succeeded
  /\ pre.paused /\ last.params = FALSE
  /\ ~paused
  /\ totalSupply = 2
  /\ \E o \in Addr, s \in Addr : Allowance(data, o, s) = 2

(* C18: a transfer with from_ = to_ passes the same authorization and      *)
(* balance checks as any transfer; when it succeeds no balance and not     *)
(* totalSupply changes, and a sender that is neither from_ nor the         *)
(* administrator still spends the value from its allowance.                *)
C18_SelfTransfer ==
  Called("transfer") /\ last.params.from_ = last.params.to_
  => LET a == last.params.from_
         value == last.params.value
         allowed == transferAllowed(pre, last.sender, last.params)
     IN /\ last.err = (IF allowed # Ok THEN allowed
                       ELSE IF getBalance(pre, a) < value THEN InsufficientBalance
                       ELSE Ok)
        /\ Succeeded
           => /\ \A b \in Addr : getBalance(data, b) = getBalance(pre, b)
              /\ totalSupply = pre.totalSupply
              /\ last.sender # a /\ last.sender # pre.administrator
                 => Allowance(data, a, last.sender) =
                      Allowance(pre, a, last.sender) - value

C18_Witness ==
  /\ Called("transfer") /\ Succeeded
  /\ last.params.from_ = last.params.to_
  /\ last.sender # last.params.from_
  /\ last.sender # pre.administrator
  /\ last.params.value = 1
  /\ getBalance(data, last.params.from_) = 2
  /\ Allowance(pre, last.params.from_, last.sender) = 2
  /\ Allowance(data, last.params.from_, last.sender) = 1

(* The storage with nothing of value zero materialized: no approval of 0   *)
(* and no account with balance 0 and no approval.  Two storages with the   *)
(* same normal form differ only in what they materialize.                  *)
NormalizeApprovals(m) == [s \in {x \in DOMAIN m : m[x] # 0} |-> m[s]]

Normalize(st) ==
  LET kept == [a \in DOMAIN st.balances |->
                 [balance |-> st.balances[a].balance,
                  approvals |-> NormalizeApprovals(st.balances[a].approvals)]]
      present == {a \in DOMAIN kept :
                    kept[a].balance # 0 \/ DOMAIN kept[a].approvals # {}}
  IN [st EXCEPT !.balances = [a \in present |-> kept[a]]]

(* C19: on two storages that differ only in what they materialize, each    *)
(* view gives the same result and each call has the same outcome and       *)
(* leads to storages that again differ only in what they materialize.      *)
C19_MaterializationUnobservable ==
  /\ last.ep \in Views
     => RunView(Normalize(pre), last.ep, last.params).result = last.result
  /\ ~Idle /\ last.ep \notin Views
     => LET r == Run(Normalize(pre), last.ep, last.sender, last.params)
        IN /\ (r.err = Ok) <=> Succeeded
           /\ Succeeded => Normalize(r.st) = Normalize(data)

(* C20: for every owner o and every spender s # o that has never been the *)
(* administrator, the total moved out of o's balance by the successful     *)
(* transfers of s never exceeds the sum of the values of o's successful    *)
(* approve(s, v) calls; that sum minus the total spent equals the current  *)
(* allowance(o, s) plus the allowances o took back with approve(s, 0).     *)
C20_SpendingBound ==
  \A p \in AuditPairs :
    p[2] \notin last.wasAdmin
    => /\ last.spent[p] <= last.approved[p]
       /\ last.approved[p] - last.spent[p] =
            Allowance(data, p[1], p[2]) + last.revoked[p]

C20_Witness ==
  \E p \in AuditPairs :
    /\ p[2] \notin last.wasAdmin
    /\ last.approved[p] = 3
    /\ last.spent[p] = 2
    /\ last.revoked[p] = 1
    /\ Allowance(data, p[1], p[2]) = 0

(* What the operation applied last left alone. *)
SupplyUnchanged == totalSupply = pre.totalSupply

AdministratorUnchanged == administrator = pre.administrator

PausedUnchanged == paused = pre.paused

BalancesUnchangedExcept(addresses) ==
  \A a \in Addr :
    a \notin addresses => getBalance(data, a) = getBalance(pre, a)

(* C21: a successful transfer or approve leaves totalSupply, administrator *)
(* and paused unchanged; a successful approve changes no balance and no    *)
(* allowance other than allowance(caller, spender); a successful mint or   *)
(* burn changes no allowance, no balance other than that of the target     *)
(* address, and neither administrator nor paused; a successful setPause    *)
(* changes only paused and a successful setAdministrator changes only      *)
(* administrator; no operation removes an account from the account         *)
(* mapping.                                                                *)
C21_FrameConditions ==
  ~Idle =>
    /\ DOMAIN pre.balances \subseteq DOMAIN balances
    /\ Succeeded /\ last.ep \in {"transfer", "approve"}
       => SupplyUnchanged /\ AdministratorUnchanged /\ PausedUnchanged
    /\ Succeeded /\ Called("approve")
       => /\ BalancesUnchangedExcept({})
          /\ AllowancesUnchangedExcept({<<last.sender, last.params.spender>>})
    /\ Succeeded /\ last.ep \in {"mint", "burn"}
       => /\ AllowancesUnchangedExcept({})
          /\ BalancesUnchangedExcept({last.params.address})
          /\ AdministratorUnchanged /\ PausedUnchanged
    /\ Succeeded /\ Called("setPause")
       => /\ balances = pre.balances
          /\ SupplyUnchanged /\ AdministratorUnchanged
    /\ Succeeded /\ Called("setAdministrator")
       => /\ balances = pre.balances
          /\ SupplyUnchanged /\ PausedUnchanged

(* alice, who holds a token and has approved one spender, approves the     *)
(* other one.                                                              *)
C21_Witness ==
  /\ Called("approve") /\ Succeeded
  /\ last.params.value = 1
  /\ Allowance(pre, last.sender, last.params.spender) = 0
  /\ Allowance(data, last.sender, last.params.spender) = 1
  /\ getBalance(data, last.sender) = 1
  /\ \E s \in Addr \ {last.params.spender} :
       Allowance(data, last.sender, s) = 1
=============================================================================
